---- MODULE Spec2Model ----
(***************************************************************************)
(* Render-job scheduler (server/job-reader.ts) and process runner          *)
(* (server/sc-task.ts) of raudio.                                          *)
(*                                                                         *)
(* One action is one turn of the Node event loop: an event handler (timer, *)
(* child-process event, store reply) together with every promise           *)
(* continuation (microtask) it triggers, up to the next point where the    *)
(* code waits for I/O.                                                     *)
(*                                                                         *)
(* Library behaviour the code relies on:                                   *)
(*  - child_process: `connected` is true only for a child spawned with an  *)
(*    IPC channel; 'close' carries code null when a signal ended the child.*)
(*  - Prisma: a query object runs only when it is awaited or then-ed; the  *)
(*    queries of one client run on a connection pool, so two queries that  *)
(*    are not awaited one after the other may be served in either order.   *)
(***************************************************************************)
EXTENDS Integers, Sequences, FiniteSets, TLC

\* ---- bounds of the model ----
MaxJobs == 2
MaxChunks == 1
MaxTicks == 1
MaxErrs == 1
MaxMotes == 1
MaxRaw == 2
MaxAges == 6
MaxStderr == 1
MaxFiles == 2

\* ---- program constants ----
interval == 1000
maxRenderTimeSeconds == 50
maxRunTime == 30
NoJob == 0
NoTimer == 0
NullCode == 0 - 1
Epoch == 1000000000

Jobs == 1..MaxJobs
ExitCodes == {0, 1, NullCode}
TimeStep == 1000 * maxRenderTimeSeconds + interval
MaxNow == MaxTicks * TimeStep

\* ---- text of the renderer's output, as sequences of atoms ----
delim == <<"xsynx">>
search == <<"xsynx", "error">>
CompletedMsg == <<"completed">>
ChunkCompleted == <<"xsynx", "completed", "xsynx">>
ChunkOther == <<"xsynx", "txt", "xsynx">>
ChunkPlain == <<"txt">>
ChunkError == <<"xsynx", "error", "xsynx">>
Chunks == {ChunkCompleted, ChunkOther, ChunkPlain, ChunkError}

\* String.prototype.includes
Includes(s, p) ==
  \E i \in 1..(Len(s) - Len(p) + 1) : SubSeq(s, i, i + Len(p) - 1) = p

\* index of the first occurrence of p in s (s includes p)
IndexOf(s, p) ==
  CHOOSE i \in 1..(Len(s) - Len(p) + 1) :
    /\ SubSeq(s, i, i + Len(p) - 1) = p
    /\ \A k \in 1..(i - 1) : SubSeq(s, k, k + Len(p) - 1) # p

\* s.split(p)[1] for a string s that includes p
SplitAt1(s, p) ==
  LET rest == SubSeq(s, IndexOf(s, p) + Len(p), Len(s))
  IN IF Includes(rest, p) THEN SubSeq(rest, 1, IndexOf(rest, p) - 1) ELSE rest

RECURSIVE Join(_)
Join(ls) ==
  IF Len(ls) = 0 THEN <<>>
  ELSE IF Len(ls) = 1 THEN ls[1]
  ELSE ls[1] \o <<", ">> \o Join(Tail(ls))

parseErrorOutput(output) ==
  LET HasSearch(l) == Includes(l, search)
      lines == SelectSeq(output, HasSearch)
  IN Join([i \in 1..Len(lines) |-> SplitAt1(lines[i], search)])

\* "throw", or the boolean the function returns as "true" / "false"
checkIsSuccess(output) ==
  LET HasDelim(l) == Includes(l, delim)
      lines == SelectSeq(output, HasDelim)
  IN IF parseErrorOutput(output) # <<>> THEN "throw"
     ELSE IF Len(output) = 0 THEN "throw"
     ELSE IF Len(lines) = 0 THEN "throw"
     ELSE IF SplitAt1(lines[1], delim) = CompletedMsg THEN "true" ELSE "false"

\* ---- request validation (checks.ts); a JavaScript value is a number or
\* undefined ----
Num(n) == [t |-> "number", v |-> n]
undefined == [t |-> "undefined", v |-> 0]

\* x[i] of a JavaScript array: undefined past its end
At(x, i) == IF i <= Len(x) THEN x[i] ELSE undefined

posNum(x) == x.t = "number" /\ x.v > 0

\* typeof x == "number" && x <= 1 || x >= 0, where `undefined >= 0` is false
range(x) == (x.t = "number" /\ x.v <= 1) \/ (x.t = "number" /\ x.v >= 0)

\* is.freq on whole numbers: x > 0.1 is x >= 1
freq(x) == posNum(x) /\ x.v >= 1 /\ x.v < 21000

\* is.mote: no check of the array's length
mote(x) == posNum(At(x, 1)) /\ freq(At(x, 2)) /\ range(At(x, 3))

\* is.moteMelody on the lines of one part
moteMelody(x) ==
  \A i \in 1..Len(x) : \A k \in 1..Len(x[i]) : mote(x[i][k])

\* shapeOf(selector): true when every field matches, otherwise it throws
shapeOf(matches) == IF matches THEN "true" ELSE "throw"

conf(x) == shapeOf(posNum(x.root) /\ posNum(x.cps))

\* is.composition for a body with one part whose sound is well formed
composition(x) ==
  IF conf(x.conf) = "throw" THEN "throw" ELSE shapeOf(moteMelody(x.motes))

\* the request bodies tried: conf fields and note-event entries from a few
\* numbers, note-events of two to four entries, one line of motes
Vals == {Num(0 - 1), Num(1), Num(2)}
TupleLens == {2, 3, 4}
Motes == UNION {[1..n -> Vals] : n \in TupleLens}
Lines == UNION {[1..n -> Motes] : n \in 1..MaxMotes}
Confs == [root : {Num(0), Num(1)}, cps : {Num(0), Num(1)}]
Bodies == [conf : Confs, motes : {<<l>> : l \in Lines}]
NoBody == [conf |-> [root |-> undefined, cps |-> undefined], motes |-> <<>>]

VARIABLES
  now,          \* wall clock, ms since the scheduler process started
  status,       \* Job table: status of each job ("none": no such row)
  task,         \* RenderTask table: a task row exists for the job
  inflight,     \* status updates sent to the store and not yet applied
  recs,         \* Recording table
  jobId,        \* spawnState.jobId
  tid,          \* spawnState.tid
  lastRefresh,  \* spawnState.lastRefresh
  timers,       \* deadlines of the pending setTimeout(refresh, interval)
  pc,           \* where the tick coroutine waits
  next,         \* tick's local `next`
  badJob,       \* id the watchdog branch of tick looks up
  overlap,      \* a second tick coroutine started while one was waiting
  errs,         \* store errors tick has caught and logged
  notif,        \* per job: the PATCH jobCompleted sent downstream
  req,          \* body of the render request the HTTP server is handling
  hpc,          \* where the handler of that request waits
  resp,         \* what the handler answered
  created,      \* the `created` object in the body of a 201 answer
  raw,          \* RenderRaw table: status of each row ("none": no such row)
  reply,        \* the last /job/:id request and the answer it got
  last,         \* per RenderRaw row: the status the last PATCH answered 200 sent
  io,           \* per job: what its renderer wrote, what main logged and reported
  files,        \* paths that exist on disk
  rmLog,        \* the last cleanup call: its path, what it did, what it logged
  tmpl,         \* what makeTmpTemplate did for the request being handled
  run           \* per job: the run() / task.main() invocation for it

vars == <<now, status, task, inflight, recs, jobId, tid, lastRefresh,
          timers, pc, next, badJob, overlap, errs, notif, req, hpc, resp, created,
          raw, reply, last, io, files, rmLog, tmpl, run>>

FsVars == <<files, rmLog>>

ApiVars == <<req, hpc, resp, created, raw, reply, last, io, FsVars, tmpl>>

NoRun ==
  [phase |-> "none", proc |-> "none", tproc |-> "none", buff |-> <<>>,
   completed |-> FALSE, promise |-> "none", rcode |-> 0, tcode |-> 0,
   check |-> "none", mainTimer |-> NoTimer, convTimer |-> NoTimer,
   killed |-> FALSE, tkilled |-> FALSE, rmTried |-> {}, since |-> 0]

\* ---- the RenderRaw table behind the /job/:id endpoints ----
RawIds == 1..MaxRaw
RawStatus == {"pending", "started", "failed", "satisfied"}
NoRows == [i \in RawIds |-> "none"]
NoReply ==
  [op |-> "none", id |-> 0, sent |-> "none", code |-> 0, updated |-> 0,
   status |-> "none"]

NoCreated == [resource |-> "none", id |-> 0]

\* the value main's promise was rejected with ("none": not rejected)
NoReason == <<"none">>
LameError == <<"Unexpected lame error">>

\* a path: a base name and the extension it ends with
Exts == {"json", "aiff", "mp3"}
Paths == [name : 1..MaxFiles, ext : Exts]
NoPath == [name |-> 0, ext |-> "none"]

\* no cleanup call yet
NoRmLog ==
  [fn |-> "none", path |-> NoPath, hiRes |-> NoPath, result |-> "none",
   raised |-> FALSE, resolved |-> FALSE]

\* nothing written by the renderer yet, nothing logged, no rejection
NoIo == [out |-> <<>>, err |-> <<>>, logged |-> 0, reason |-> NoReason]

Init ==
  /\ created = NoCreated
  /\ raw = NoRows
  /\ reply = NoReply
  /\ last = NoRows
  /\ io = [j \in Jobs |-> NoIo]
  /\ files = {}
  /\ rmLog = NoRmLog
  /\ tmpl = "none"
  /\ now = 0
  /\ status = [j \in Jobs |-> "none"]
  /\ task = [j \in Jobs |-> FALSE]
  /\ inflight = {}
  /\ recs = {}
  /\ jobId = NoJob
  /\ tid = NoTimer
  /\ lastRefresh = 0
  /\ timers = {}
  /\ pc = "find"
  /\ next = NoJob
  /\ badJob = NoJob
  /\ overlap = FALSE
  /\ errs = 0
  /\ notif = [j \in Jobs |-> "none"]
  /\ req = NoBody
  /\ hpc = "idle"
  /\ resp = "none"
  /\ run = [j \in Jobs |-> NoRun]

\* ---- the Job Store ----

\* a find query ordered by createdAt ascending (oldest pending job first)
getOldestJob ==
  LET pending == {j \in Jobs : status[j] = "pending"}
  IN IF pending = {} THEN NoJob
     ELSE CHOOSE j \in pending : \A k \in pending : j <= k

\* prisma.job.findFirst({where: {status: "pending"}, orderBy: {createdAt: "desc"}});
\* rows are created one request at a time, so createdAt grows with the id
getNextJob ==
  LET pending == {j \in Jobs : status[j] = "pending"}
  IN IF pending = {} THEN NoJob
     ELSE CHOOSE j \in pending : \A k \in pending : k <= j

\* a status update handed to the store; cb is what runs once it is done
Write(j, st, cb) == [job |-> j, st |-> st, cb |-> cb]
markStarted(j) == Write(j, "started", "none")
markFailed(j) == Write(j, "failed", "none")
watchdogFailed(j) == Write(j, "failed", "refresh")

\* the two Recording rows run() builds after a successful task.main
HiResRecording(j) == [job |-> j, format |-> "aiff", label |-> "deterministic"]
Mp3Recording(j) == [job |-> j, format |-> "mp3", label |-> "deterministic"]

\* a prisma.recording.create(...) that is executed
ExecutedCreate(table, row) == table \cup {row}

\* prisma.recording.create(...) whose result is neither awaited nor then-ed:
\* the query object is built and dropped, no row is written
DroppedCreate(table, row) == table

\* ---- the scheduler ----

\* Date.getTime() at model time t: milliseconds since 1970. Epoch stands for
\* the time the process started; any real start time is later than this one
getTime(t) == Epoch + t

\* the age the spec asks for: (now - lastRefresh) / 1000 > maxRenderTimeSeconds
ElapsedDue(n, lr) == n - lr > 1000 * maxRenderTimeSeconds

\* runTime > maxRenderTimeSeconds with
\* runTime = now.getTime() - lastRefresh.getTime() / 1000
\* (for whole a and b, a - b / 1000 > c exactly when a - floor(b / 1000) > c)
WatchdogDue(n, lr) ==
  getTime(n) - (getTime(lr) \div 1000) > maxRenderTimeSeconds

\* a tick that returns without arming the timer
NoRearm(tms) == [pc |-> "idle", tid |-> tid, timers |-> tms]

\* return spawnState.tid = setTimeout(refresh, interval)
ArmTimer(tms) ==
  [pc |-> "idle", tid |-> now + interval, timers |-> tms \cup {now + interval}]

\* tick from `if (spawnState.tid)` on: rearm the timer or ask for a job
TickTail(tidv, tms) ==
  IF tidv # NoTimer THEN ArmTimer(tms)
  ELSE [pc |-> "find", tid |-> tidv, timers |-> tms]

\* a call of tick() up to its first await, made while the tick coroutine is at
\* curPc, with spawnState = (jid, tidv, lr) and the pending timers tms
TickCall(curPc, jid, tidv, tms, lr) ==
  IF curPc # "idle"
  THEN [pc |-> curPc, tid |-> tidv, timers |-> tms, badJob |-> badJob, overlap |-> TRUE]
  ELSE IF jid # NoJob /\ WatchdogDue(now, lr)
  THEN [pc |-> "wd", tid |-> tidv, timers |-> tms, badJob |-> jid, overlap |-> overlap]
  ELSE LET t == TickTail(tidv, tms)
       IN [pc |-> t.pc, tid |-> t.tid, timers |-> t.timers, badJob |-> badJob,
           overlap |-> overlap]

SetTick(r) ==
  /\ pc' = r.pc
  /\ tid' = r.tid
  /\ timers' = r.timers
  /\ badJob' = r.badJob
  /\ overlap' = r.overlap

\* a finally that clears the guard and leaves the next tick to the timer
FinallyViaTimer(curPc) ==
  /\ jobId' = NoJob
  /\ SetTick(ArmTimer(timers) @@ [badJob |-> badJob, overlap |-> overlap])
  /\ UNCHANGED lastRefresh

\* a finally that calls tick with the guard still set
FinallyKeepsGuard(curPc) ==
  /\ jobId' = jobId
  /\ SetTick(TickCall(curPc, jobId, tid, timers, lastRefresh))
  /\ UNCHANGED lastRefresh

\* .finally(() => { spawnState.jobId = null; tick() })
Finally(curPc) ==
  /\ jobId' = NoJob
  /\ SetTick(TickCall(curPc, NoJob, tid, timers, lastRefresh))
  /\ UNCHANGED lastRefresh

\* a renderError that only logs: no failed write is sent
FailChainNoWrite(j, curPc, sent) ==
  /\ inflight' = sent
  /\ Finally(curPc)

\* renderError, then the finally: the job is written failed without awaiting
FailChain(j, curPc, sent) ==
  /\ inflight' = sent \cup {markFailed(j)}
  /\ Finally(curPc)

\* ---- the process runner ----

\* child_process.spawn(cmd, args) with default stdio: no IPC channel
SpawnConnected == FALSE

Spawned ==
  [NoRun EXCEPT !.phase = "main", !.proc = "running", !.promise = "pending",
                !.mainTimer = now + 1000 * maxRunTime, !.since = now]

\* a res without the completed flag: a later call reports a second outcome
resUnguarded(r) == [r EXCEPT !.completed = TRUE, !.promise = "resolved"]

res(r) ==
  IF ~r.completed THEN [r EXCEPT !.completed = TRUE, !.promise = "resolved"] ELSE r

rej(r) ==
  IF ~r.completed THEN [r EXCEPT !.completed = TRUE, !.promise = "rejected"] ELSE r

cleanupTmpTemplate(r, ext) ==
  IF ext # "json" THEN r ELSE [r EXCEPT !.rmTried = @ \cup {"json"}]

cleanupHiResFile(r, ext) ==
  IF ext # "aiff" THEN r ELSE [r EXCEPT !.rmTried = @ \cup {"aiff"}]

\* extension of job.inputFile (makeTmpTemplate) and of absOutPath (run)
InputExt == "json"
OutExt == "aiff"

\* CloseSuccess without the await on convertAudio: res(mp3Path) runs at once
CloseSuccessNoAwait(r) ==
  LET chk == checkIsSuccess(r.buff)
  IN IF chk = "throw"
     THEN [r EXCEPT !.check = chk, !.phase = "aborted", !.buff = <<>>]
     ELSE res([r EXCEPT !.check = chk, !.tproc = "running", !.buff = <<>>,
                        !.convTimer = now + 1000 * maxRunTime])

\* the close handler's success branch up to `await convertAudio(...)`:
\* checkIsSuccess may throw, its result is not used
CloseSuccess(r) ==
  LET chk == checkIsSuccess(r.buff)
  IN IF chk = "throw"
     THEN [r EXCEPT !.check = chk, !.phase = "aborted", !.buff = <<>>]
     ELSE [r EXCEPT !.check = chk, !.tproc = "running", !.buff = <<>>,
                    !.convTimer = now + 1000 * maxRunTime]

\* the close handler's else branch
CloseFailure(r) == rej(r)

\* a close handler that resolves whatever the transcoder's exit code was
AfterConvertAnyCode(r, code) ==
  res(cleanupHiResFile(cleanupTmpTemplate(r, InputExt), OutExt))

\* the close handler after `await convertAudio(...)`
AfterConvert(r, code) ==
  LET caught == IF code = 0 THEN r ELSE rej(r)
      cleaned == cleanupHiResFile(cleanupTmpTemplate(caught, InputExt), OutExt)
  IN res(cleaned)

\* ---- actions ----

Advance ==
  /\ now + TimeStep <= MaxNow
  /\ now' = now + TimeStep
  /\ UNCHANGED <<ApiVars, status, task, inflight, recs, jobId, tid,
                 lastRefresh, timers, pc, next, badJob, overlap, errs, notif, run>>

\* POST /render/performance/:id, prisma.job.create
PostJob(j) ==
  /\ status[j] = "none"
  /\ \A k \in Jobs : k < j => status[k] # "none"
  /\ status' = [status EXCEPT ![j] = "pending"]
  /\ UNCHANGED <<ApiVars, now, task, inflight, recs, jobId, tid, lastRefresh, timers,
                 pc, next, badJob, overlap, errs, notif, run>>

\* POST /render/performance/:id, prisma.renderTask.create
PostTask(j) ==
  /\ status[j] # "none"
  /\ ~task[j]
  /\ task' = [task EXCEPT ![j] = TRUE]
  /\ UNCHANGED <<ApiVars, now, status, inflight, recs, jobId, tid, lastRefresh, timers,
                 pc, next, badJob, overlap, errs, notif, run>>

\* the store applies a status update; a watchdog update then runs refresh
ApplyWrite(w) ==
  /\ w \in inflight
  /\ inflight' = inflight \ {w}
  /\ status' = [status EXCEPT ![w.job] = w.st]
  /\ IF w.cb = "refresh"
     THEN /\ lastRefresh' = now
          /\ SetTick(TickCall(pc, jobId, NoTimer, timers, now))
     ELSE UNCHANGED <<tid, lastRefresh, timers, pc, badJob, overlap>>
  /\ UNCHANGED <<ApiVars, now, task, recs, jobId, next, errs, notif, run>>

\* refresh(), called by the reschedule timer d
RefreshTimer(d) ==
  /\ d \in timers
  /\ lastRefresh' = now
  /\ SetTick(TickCall(pc, jobId, NoTimer, timers \ {d}, now))
  /\ UNCHANGED <<ApiVars, now, status, task, inflight, recs, jobId, next, errs, notif, run>>

\* the reschedule timer fires once the clock has reached its deadline
Refresh(d) ==
  /\ now >= d
  /\ RefreshTimer(d)

\* run(taskDoc, next) up to `await task.main(...)`, with its completion chain
\* when taskDoc is null (taskDoc.name throws)
StartRun(j) ==
  IF run[j].phase \in {"main", "rec", "sat"}
  THEN /\ overlap' = TRUE
       /\ UNCHANGED <<inflight, jobId, tid, lastRefresh, timers, pc, next, badJob, run>>
  ELSE IF ~task[j]
  THEN /\ FailChain(j, "idle", inflight \cup {markStarted(j)})
       /\ next' = NoJob
       /\ UNCHANGED run
  ELSE /\ jobId' = j
       /\ inflight' = inflight \cup {markStarted(j)}
       /\ run' = [run EXCEPT ![j] = Spawned]
       /\ pc' = "idle"
       /\ next' = NoJob
       /\ UNCHANGED <<tid, lastRefresh, timers, badJob, overlap>>

\* getNextJob(): the find query's row, or undefined when the query threw
FoundJob(ok) == IF ok THEN getNextJob ELSE NoJob

\* a task lookup that throws and is not caught: the tick ends there
LookupFailedFatal(tms) == [pc |-> "idle", tid |-> tid, timers |-> tms]

\* the catch around the task lookup
LookupFailed(tms) == ArmTimer(tms)

\* the store answers the query tick is awaiting, with rows (ok) or an error
QueryReply(ok) ==
  /\ pc \in {"find", "task", "wd"}
  /\ ~ok => errs < MaxErrs
  /\ errs' = IF ok THEN errs ELSE errs + 1
  /\ IF pc = "find"
     THEN IF FoundJob(ok) = NoJob
          THEN /\ SetTick(ArmTimer(timers) @@ [badJob |-> badJob, overlap |-> overlap])
               /\ UNCHANGED <<inflight, jobId, lastRefresh, next, run>>
          ELSE /\ pc' = "task"
               /\ next' = FoundJob(ok)
               /\ tid' = NoTimer
               /\ UNCHANGED <<inflight, jobId, lastRefresh, timers, badJob, overlap, run>>
     ELSE IF pc = "task"
     THEN IF ok
          THEN StartRun(next)
          ELSE /\ SetTick(LookupFailed(timers) @@ [badJob |-> badJob, overlap |-> overlap])
               /\ next' = NoJob
               /\ UNCHANGED <<inflight, jobId, lastRefresh, run>>
     ELSE IF ok
          THEN /\ inflight' = inflight \cup {watchdogFailed(badJob)}
               /\ SetTick(TickTail(tid, timers) @@ [badJob |-> NoJob, overlap |-> overlap])
               /\ UNCHANGED <<jobId, lastRefresh, next, run>>
          ELSE /\ pc' = "idle"
               /\ badJob' = NoJob
               /\ UNCHANGED <<inflight, jobId, tid, lastRefresh, timers, next, overlap, run>>
  /\ UNCHANGED <<ApiVars, now, status, task, recs, notif>>

\* proc.stdout 'data'
RendererStdout(j, c) ==
  /\ run[j].proc = "running"
  /\ Len(run[j].buff) < MaxChunks
  /\ run' = [run EXCEPT ![j].buff = Append(@, c)]
  /\ UNCHANGED <<ApiVars, now, status, task, inflight, recs, jobId, tid, lastRefresh,
                 timers, pc, next, badJob, overlap, errs, notif>>

\* a run that is over (or whose close handler threw): its timeoutProc calls
\* find proc.connected false and do nothing, so its timers (and the time it
\* began) leave the model
Retire(r) == [r EXCEPT !.mainTimer = NoTimer, !.convTimer = NoTimer, !.since = 0]

\* what follows a handler that took the run of job j from `before` to `after`:
\* a rejected task.main ends run() with a string (renderError, finally), a
\* resolved one lets run() go on to its Recording rows
RunChain(j, before, after) ==
  IF before.promise = "pending" /\ after.promise = "rejected"
  THEN /\ run' = [run EXCEPT ![j] = Retire([after EXCEPT !.phase = "failed"])]
       /\ FailChain(j, pc, inflight)
       /\ UNCHANGED recs
  ELSE IF before.promise = "pending" /\ after.promise = "resolved"
  THEN /\ run' = [run EXCEPT ![j] = [after EXCEPT !.phase = "rec"]]
       /\ recs' = DroppedCreate(recs, HiResRecording(j))
       /\ UNCHANGED <<inflight, jobId, tid, lastRefresh, timers, pc, badJob, overlap>>
  ELSE /\ run' = [run EXCEPT ![j] = IF after.phase = "aborted" THEN Retire(after) ELSE after]
       /\ UNCHANGED <<inflight, recs, jobId, tid, lastRefresh, timers, pc, badJob, overlap>>

\* proc 'close'
RendererClose(j, code) ==
  /\ run[j].proc = "running"
  /\ LET closed == [run[j] EXCEPT !.proc = "closed", !.rcode = code]
     IN RunChain(j, run[j], IF code = 0 \/ code = NullCode
                            THEN CloseSuccess(closed)
                            ELSE CloseFailure(closed))
  /\ UNCHANGED <<ApiVars, now, status, task, next, errs, notif>>

\* lame 'close', then the rest of the renderer's close handler
TranscoderClose(j, code) ==
  /\ run[j].tproc = "running"
  /\ LET closed == [run[j] EXCEPT !.tproc = "closed", !.tcode = code]
     IN RunChain(j, run[j], AfterConvert(closed, code))
  /\ UNCHANGED <<ApiVars, now, status, task, next, errs, notif>>

\* the awaited prisma.recording.create answers; completedRender sends markSatisfied
RecordingCreated(j) ==
  /\ run[j].phase = "rec"
  /\ recs' = recs \cup {Mp3Recording(j)}
  /\ run' = [run EXCEPT ![j].phase = "sat"]
  /\ UNCHANGED <<ApiVars, now, status, task, inflight, jobId, tid, lastRefresh, timers,
                 pc, next, badJob, overlap, errs, notif>>

\* markSatisfied answers; notify (jobCompleted sends the PATCH and returns
\* without waiting for it), then the finally
\* when the store rejects the update (ok false), renderError sends markFailed
\* instead, then the finally
SatisfiedDone(j, ok) ==
  /\ run[j].phase = "sat"
  /\ IF ok
     THEN /\ status' = [status EXCEPT ![j] = "satisfied"]
          /\ run' = [run EXCEPT ![j] = Retire([@ EXCEPT !.phase = "done"])]
          /\ notif' = [notif EXCEPT ![j] = "sent"]
          /\ Finally(pc)
          /\ UNCHANGED <<inflight, errs>>
     ELSE /\ errs < MaxErrs
          /\ errs' = errs + 1
          /\ run' = [run EXCEPT ![j] = Retire([@ EXCEPT !.phase = "unsat"])]
          /\ FailChain(j, pc, inflight)
          /\ UNCHANGED <<status, notif>>
  /\ UNCHANGED <<ApiVars, now, task, recs, next>>

\* a badResponse that writes the job failed
NotifyFailedReverts(j, sent) == sent \cup {markFailed(j)}

\* jobCompleted's badResponse: two log lines, no status write is sent
NotifyFailed(j, sent) == sent

\* the downstream service answers the PATCH (patched), or the request fails
\* (badResponse)
NotifyReply(j, ok) ==
  /\ notif[j] = "sent"
  /\ notif' = [notif EXCEPT ![j] = IF ok THEN "ok" ELSE "failed"]
  /\ inflight' = IF ok THEN inflight ELSE NotifyFailed(j, inflight)
  /\ UNCHANGED <<ApiVars, now, status, task, recs, jobId, tid, lastRefresh, timers,
                 pc, next, badJob, overlap, errs, run>>

\* main's timeoutProc
MainTimeout(j) ==
  /\ run[j].mainTimer # NoTimer
  /\ now >= run[j].mainTimer
  /\ run' = [run EXCEPT ![j].mainTimer = NoTimer,
                        ![j].killed = @ \/ SpawnConnected]
  /\ UNCHANGED <<ApiVars, now, status, task, inflight, recs, jobId, tid, lastRefresh,
                 timers, pc, next, badJob, overlap, errs, notif>>

\* convertAudio's timeoutProc
ConvTimeout(j) ==
  /\ run[j].convTimer # NoTimer
  /\ now >= run[j].convTimer
  /\ run' = [run EXCEPT ![j].convTimer = NoTimer,
                        ![j].tkilled = @ \/ SpawnConnected]
  /\ UNCHANGED <<ApiVars, now, status, task, inflight, recs, jobId, tid, lastRefresh,
                 timers, pc, next, badJob, overlap, errs, notif>>

Next ==
  \/ Advance
  \/ \E j \in Jobs : PostJob(j)
  \/ \E j \in Jobs : PostTask(j)
  \/ \E w \in inflight : ApplyWrite(w)
  \/ \E d \in timers : Refresh(d)
  \/ \E ok \in BOOLEAN : QueryReply(ok)
  \/ \E j \in Jobs, c \in Chunks : RendererStdout(j, c)
  \/ \E j \in Jobs, code \in ExitCodes : RendererClose(j, code)
  \/ \E j \in Jobs, code \in {0, 1} : TranscoderClose(j, code)
  \/ \E j \in Jobs : RecordingCreated(j)
  \/ \E j \in Jobs, ok \in BOOLEAN : SatisfiedDone(j, ok)
  \/ \E j \in Jobs, ok \in BOOLEAN : NotifyReply(j, ok)
  \/ \E j \in Jobs : MainTimeout(j)
  \/ \E j \in Jobs : ConvTimeout(j)

Spec == Init /\ [][Next]_vars

\* ---- the scheduler without its clock: a pending reschedule timer fires at
\* some later moment, the timeoutProc callbacks (which change nothing, see
\* SpawnConnected) are left out; every event that can happen does happen ----

LiveNext ==
  \/ \E j \in Jobs : PostJob(j)
  \/ \E j \in Jobs : PostTask(j)
  \/ \E w \in inflight : ApplyWrite(w)
  \/ \E d \in timers : RefreshTimer(d)
  \/ \E ok \in BOOLEAN : QueryReply(ok)
  \/ \E j \in Jobs, c \in Chunks : RendererStdout(j, c)
  \/ \E j \in Jobs, code \in ExitCodes : RendererClose(j, code)
  \/ \E j \in Jobs, code \in {0, 1} : TranscoderClose(j, code)
  \/ \E j \in Jobs : RecordingCreated(j)
  \/ \E j \in Jobs, ok \in BOOLEAN : SatisfiedDone(j, ok)
  \/ \E j \in Jobs, ok \in BOOLEAN : NotifyReply(j, ok)

\* the store goes on serving requests and writes, timers fire, the HTTP
\* handler finishes a request it began, child processes close
Fairness ==
  /\ WF_vars(\E j \in Jobs : PostTask(j))
  /\ WF_vars(\E w \in inflight : ApplyWrite(w))
  /\ WF_vars(\E d \in timers : RefreshTimer(d))
  /\ WF_vars(\E ok \in BOOLEAN : QueryReply(ok))
  /\ WF_vars(\E j \in Jobs, code \in ExitCodes : RendererClose(j, code))
  /\ WF_vars(\E j \in Jobs, code \in {0, 1} : TranscoderClose(j, code))
  /\ WF_vars(\E j \in Jobs : RecordingCreated(j))
  /\ WF_vars(\E j \in Jobs, ok \in BOOLEAN : SatisfiedDone(j, ok))

LiveSpec == Init /\ [][LiveNext]_vars /\ Fairness

\* ---- POST /render/performance/:performanceId, one request at a time ----

SchedVars == <<now, inflight, recs, jobId, tid, lastRefresh, timers, pc, next,
               badJob, overlap, errs, notif, run>>

\* a request arrives (valid performanceId in the path)
Receive(b) ==
  /\ hpc = "idle"
  /\ \E j \in Jobs : status[j] = "none"
  /\ req' = b
  /\ hpc' = "check"
  /\ resp' = "none"
  /\ created' = NoCreated
  /\ tmpl' = "none"
  /\ UNCHANGED <<status, task, SchedVars, raw, reply, last, io, FsVars>>

\* what task.makeTmpTemplate(req.body) can do: return the path of the file it
\* wrote, return {error} when fs.writeFileSync threw, or throw itself (from
\* updateTemplate: pickSample reads the samples directory of a part whose
\* baseOsc is kick, perc or hats). The sounds of the parts and the disk are
\* not in req, so the outcome is drawn
TemplateOutcomes == {"path", "error", "throw"}

\* the handler from makeTmpTemplate to the answer of prisma.job.create.
\* "path": the Job row is created. "error": inputFile is an object, the create
\* is rejected (the client validates a String field), the outer catch logs and
\* the handler sends its final 500. "throw": the inner catch sends 500 and the
\* handler goes on with inputFile undefined; the create leaves the column to
\* its default and the Job row is created
AfterTemplate(j, t) ==
  IF t = "path"
  THEN [status |-> [status EXCEPT ![j] = "pending"], hpc |-> "task", resp |-> resp]
  ELSE IF t = "error"
  THEN [status |-> status, hpc |-> "idle", resp |-> "500"]
  ELSE [status |-> [status EXCEPT ![j] = "pending"], hpc |-> "task", resp |-> "500"]

\* the handler up to `await prisma.job.create`: check.is.composition throws on
\* a body that does not match (the handler ends without an answer), and the
\* checks repeated inside the try pass when it returned true
PostRender(j, t) ==
  /\ hpc = "check"
  /\ status[j] = "none"
  /\ \A k \in Jobs : k < j => status[k] # "none"
  /\ IF composition(req) = "true"
     THEN /\ status' = AfterTemplate(j, t).status
          /\ hpc' = AfterTemplate(j, t).hpc
          /\ resp' = AfterTemplate(j, t).resp
          /\ tmpl' = t
     ELSE /\ hpc' = "idle"
          /\ resp' = "threw"
          /\ UNCHANGED <<status, tmpl>>
  /\ UNCHANGED <<req, created, task, SchedVars, raw, reply, last, io, FsVars>>

\* the id the RenderTask table (AUTO_INCREMENT, empty at the start) gives the
\* next row
NextTaskId == Cardinality({k \in Jobs : task[k]}) + 1

\* prisma.renderTask.create answers, the handler sends 201; when an answer
\* has been sent already, that send and the 500 of the outer path both throw
\* and the answer stays as it is
PostRespond(j) ==
  /\ hpc = "task"
  /\ status[j] # "none"
  /\ ~task[j]
  /\ task' = [task EXCEPT ![j] = TRUE]
  /\ hpc' = "idle"
  /\ IF resp = "none"
     THEN /\ resp' = "201"
          /\ created' = [resource |-> "task-async-render", id |-> NextTaskId]
     ELSE UNCHANGED <<resp, created>>
  /\ UNCHANGED <<req, status, SchedVars, raw, reply, last, io, FsVars, tmpl>>

PostNext ==
  \/ \E b \in Bodies : Receive(b)
  \/ \E j \in Jobs, t \in TemplateOutcomes : PostRender(j, t)
  \/ \E j \in Jobs : PostRespond(j)

PostSpec == Init /\ [][PostNext]_vars

\* ---- the watchdog test of tick, tried on every guard and pair of times ----

Ages == {k * 10 * interval : k \in 0..MaxAges}

\* tick() is entered with spawnState = (jobId, tid, lastRefresh)
TickEntry ==
  /\ pc = "idle"
  /\ timers = {}
  /\ inflight = {}
  /\ SetTick(TickCall(pc, jobId, tid, timers, lastRefresh))
  /\ UNCHANGED <<ApiVars, now, status, task, inflight, recs, jobId, lastRefresh,
                 next, errs, notif, run>>

\* the scheduler about to enter tick: a guard that is empty or holds a job
\* whose renderer runs, refreshed at lastRefresh, with the clock at now
WdInit ==
  /\ created = NoCreated
  /\ raw = NoRows
  /\ reply = NoReply
  /\ last = NoRows
  /\ io = [j \in Jobs |-> NoIo]
  /\ files = {}
  /\ rmLog = NoRmLog
  /\ tmpl = "none"
  /\ now \in Ages
  /\ lastRefresh \in {t \in Ages : t <= now}
  /\ jobId \in Jobs \cup {NoJob}
  /\ status = [j \in Jobs |-> IF j = jobId THEN "started" ELSE "none"]
  /\ task = [j \in Jobs |-> j = jobId]
  /\ run = [j \in Jobs |->
              IF j = jobId
              THEN [NoRun EXCEPT !.phase = "main", !.proc = "running",
                                 !.promise = "pending"]
              ELSE NoRun]
  /\ inflight = {}
  /\ recs = {}
  /\ tid = NoTimer
  /\ timers = {}
  /\ pc = "idle"
  /\ next = NoJob
  /\ badJob = NoJob
  /\ overlap = FALSE
  /\ errs = 0
  /\ notif = [j \in Jobs |-> "none"]
  /\ req = NoBody
  /\ hpc = "idle"
  /\ resp = "none"

WdNext ==
  \/ TickEntry
  \/ \E ok \in BOOLEAN : QueryReply(ok)
  \/ \E w \in inflight : ApplyWrite(w)

WdSpec == WdInit /\ [][WdNext]_vars

\* ---- task.main: one invocation per job, one at a time; the scheduler's
\* variables keep their initial values, main reads and writes none of them ----

\* what the renderer may write to stderr in one 'data' event
StderrChunks == {ChunkError, ChunkPlain}

hasError(msg) == Includes(msg, search)

\* a stderr handler that rejects the promise on an error line
stderrRejects(r, c) == IF hasError(c) THEN rej(r) ELSE r

\* proc.stderr 'data': an error line is logged, the invocation is left alone
stderrData(r, c) == r

\* the close handler's else branch: const err = parseErrorOutput(buff)
CloseReason(r) == parseErrorOutput(r.buff)

\* the value the promise is rejected with when a handler takes the invocation
\* from `before` to `after`
Rejection(before, after, why, old) ==
  IF before.promise = "pending" /\ after.promise = "rejected" THEN why ELSE old

\* main(filepath, outpath) up to `return new Promise`
MainCall(j) ==
  /\ run[j].phase = "none"
  /\ \A k \in Jobs : run[k].promise # "pending"
  /\ run' = [run EXCEPT ![j] = Spawned]
  /\ UNCHANGED <<ApiVars, now, status, task, inflight, recs, jobId, tid, lastRefresh,
                 timers, pc, next, badJob, overlap, errs, notif>>

\* proc.stdout 'data'
MainStdout(j, c) ==
  /\ run[j].proc = "running"
  /\ Len(run[j].buff) < MaxChunks
  /\ run' = [run EXCEPT ![j].buff = Append(@, c)]
  /\ io' = [io EXCEPT ![j].out = Append(@, c)]
  /\ UNCHANGED <<FsVars, tmpl, req, hpc, resp, created, raw, reply, last, now, status, task,
                 inflight, recs, jobId, tid, lastRefresh, timers, pc, next, badJob,
                 overlap, errs, notif>>

\* proc.stderr 'data'
MainStderr(j, c) ==
  /\ run[j].proc = "running"
  /\ Len(io[j].err) < MaxStderr
  /\ run' = [run EXCEPT ![j] = stderrData(@, c)]
  /\ io' = [io EXCEPT ![j].err = Append(@, c),
                      ![j].logged = IF hasError(c) THEN @ + 1 ELSE @,
                      ![j].reason = Rejection(run[j], stderrData(run[j], c), c, @)]
  /\ UNCHANGED <<FsVars, tmpl, req, hpc, resp, created, raw, reply, last, now, status, task,
                 inflight, recs, jobId, tid, lastRefresh, timers, pc, next, badJob,
                 overlap, errs, notif>>

\* proc 'close', up to `await convertAudio(...)` or the end of the handler
MainClose(j, code) ==
  /\ run[j].proc = "running"
  /\ LET closed == [run[j] EXCEPT !.proc = "closed", !.rcode = code]
         after == IF code = 0 \/ code = NullCode
                  THEN CloseSuccess(closed)
                  ELSE CloseFailure(closed)
     IN /\ run' = [run EXCEPT ![j] = after]
        /\ io' = [io EXCEPT ![j].reason =
                               Rejection(run[j], after, CloseReason(closed), @)]
  /\ UNCHANGED <<FsVars, tmpl, req, hpc, resp, created, raw, reply, last, now, status, task,
                 inflight, recs, jobId, tid, lastRefresh, timers, pc, next, badJob,
                 overlap, errs, notif>>

\* lame 'close', then the rest of the renderer's close handler
MainLameClose(j, code) ==
  /\ run[j].tproc = "running"
  /\ LET closed == [run[j] EXCEPT !.tproc = "closed", !.tcode = code]
         after == AfterConvert(closed, code)
     IN /\ run' = [run EXCEPT ![j] = after]
        /\ io' = [io EXCEPT ![j].reason = Rejection(run[j], after, LameError, @)]
  /\ UNCHANGED <<FsVars, tmpl, req, hpc, resp, created, raw, reply, last, now, status, task,
                 inflight, recs, jobId, tid, lastRefresh, timers, pc, next, badJob,
                 overlap, errs, notif>>

\* two jobs with their tasks are stored, main has not been called yet
MainInit ==
  /\ created = NoCreated
  /\ raw = NoRows
  /\ reply = NoReply
  /\ last = NoRows
  /\ io = [j \in Jobs |-> NoIo]
  /\ files = {}
  /\ rmLog = NoRmLog
  /\ tmpl = "none"
  /\ now = 0
  /\ status = [j \in Jobs |-> "pending"]
  /\ task = [j \in Jobs |-> TRUE]
  /\ inflight = {}
  /\ recs = {}
  /\ jobId = NoJob
  /\ tid = NoTimer
  /\ lastRefresh = 0
  /\ timers = {}
  /\ pc = "find"
  /\ next = NoJob
  /\ badJob = NoJob
  /\ overlap = FALSE
  /\ errs = 0
  /\ notif = [j \in Jobs |-> "none"]
  /\ req = NoBody
  /\ hpc = "idle"
  /\ resp = "none"
  /\ run = [j \in Jobs |-> NoRun]

MainNext ==
  \/ Advance
  \/ \E j \in Jobs : MainCall(j)
  \/ \E j \in Jobs, c \in Chunks : MainStdout(j, c)
  \/ \E j \in Jobs, c \in StderrChunks : MainStderr(j, c)
  \/ \E j \in Jobs, code \in ExitCodes : MainClose(j, code)
  \/ \E j \in Jobs, code \in {0, 1} : MainLameClose(j, code)
  \/ \E j \in Jobs : MainTimeout(j)
  \/ \E j \in Jobs : ConvTimeout(j)

MainSpec == MainInit /\ [][MainNext]_vars

\* ---- cleanupTmpTemplate and cleanupHiResFile on a disk, tried on every
\* path; the other variables keep their initial values ----

\* an endsWith that accepts every path
endsWithAny(path, ext) == TRUE

\* filepath.endsWith("." + ext)
endsWith(path, ext) == path.ext = ext

\* fs.rmSync(filepath): throws when the path does not exist or the removal
\* fails (fault)
rmSync(disk, path, fault) ==
  IF path \in disk /\ ~fault
  THEN [files |-> disk \ {path}, threw |-> FALSE]
  ELSE [files |-> disk, threw |-> TRUE]

\* an rmSync whose exception is not caught
rmUncaught(r) ==
  [files |-> r.files, result |-> IF r.threw THEN "rm-error" ELSE "removed",
   raised |-> r.threw]

\* try { fs.rmSync(filepath) } catch (e) { log.error(...) }
rmCaught(r) ==
  [files |-> r.files, result |-> IF r.threw THEN "rm-error" ELSE "removed",
   raised |-> FALSE]

\* the body shared by cleanupTmpTemplate (ext "json") and cleanupHiResFile
\* (ext "aiff"): refuse and log, or remove and log a failure
cleanupAt(ext, disk, path, fault) ==
  IF ~endsWith(path, ext)
  THEN [files |-> disk, result |-> "refused", raised |-> FALSE]
  ELSE rmCaught(rmSync(disk, path, fault))

cleanupTmpTemplateAt(disk, path, fault) == cleanupAt("json", disk, path, fault)
cleanupHiResFileAt(disk, path, fault) == cleanupAt("aiff", disk, path, fault)

\* a file appears: makeTmpTemplate, the renderer or the transcoder wrote it
WriteFile(path) ==
  /\ path \notin files
  /\ files' = files \cup {path}
  /\ rmLog' = NoRmLog
  /\ UNCHANGED <<req, hpc, resp, created, raw, reply, last, io, tmpl, status, task,
                 SchedVars>>

\* one call of cleanupTmpTemplate(path)
CleanTmp(path, fault) ==
  /\ LET c == cleanupTmpTemplateAt(files, path, fault)
     IN /\ files' = c.files
        /\ rmLog' = [NoRmLog EXCEPT !.fn = "cleanupTmpTemplate", !.path = path,
                                    !.result = c.result, !.raised = c.raised]
  /\ UNCHANGED <<req, hpc, resp, created, raw, reply, last, io, tmpl, status, task,
                 SchedVars>>

\* one call of cleanupHiResFile(path)
CleanHiRes(path, fault) ==
  /\ LET c == cleanupHiResFileAt(files, path, fault)
     IN /\ files' = c.files
        /\ rmLog' = [NoRmLog EXCEPT !.fn = "cleanupHiResFile", !.path = path,
                                    !.result = c.result, !.raised = c.raised]
  /\ UNCHANGED <<req, hpc, resp, created, raw, reply, last, io, tmpl, status, task,
                 SchedVars>>

\* the end of main's close handler:
\* finally { cleanupTmpTemplate(filepath); cleanupHiResFile(outpath) } res(mp3Path)
\* a cleanup that raises ends the handler before the next statement
CloseFinally(filepath, outpath, f1, f2) ==
  /\ LET c1 == cleanupTmpTemplateAt(files, filepath, f1)
         c2 == cleanupHiResFileAt(c1.files, outpath, f2)
     IN /\ files' = IF c1.raised THEN c1.files ELSE c2.files
        /\ rmLog' = [NoRmLog EXCEPT !.fn = "finally", !.path = filepath,
                                    !.hiRes = outpath,
                                    !.result = IF c1.raised THEN c1.result ELSE c2.result,
                                    !.raised = c1.raised \/ c2.raised,
                                    !.resolved = ~(c1.raised \/ c2.raised)]
  /\ UNCHANGED <<req, hpc, resp, created, raw, reply, last, io, tmpl, status, task,
                 SchedVars>>

CleanNext ==
  \/ \E path \in Paths : WriteFile(path)
  \/ \E path \in Paths, fault \in BOOLEAN : CleanTmp(path, fault)
  \/ \E path \in Paths, fault \in BOOLEAN : CleanHiRes(path, fault)
  \/ \E filepath, outpath \in Paths, f1, f2 \in BOOLEAN :
       CloseFinally(filepath, outpath, f1, f2)

CleanSpec == Init /\ [][CleanNext]_vars

\* ---- GET and PATCH /job/:id, one request at a time ----

\* check.is.id on the parsed path parameter
isId(x) == x > 0

\* check.api.jobStatus
jobStatus(x) == x \in {"pending", "failed", "satisfied"}

\* a PATCH that writes updatedAt only
TouchedRow(old, sent) == old

\* the status column after prisma.renderRaw.update({where: {id}, data: values})
PatchedRow(old, sent) == IF jobStatus(sent) THEN sent ELSE old

\* PATCH /job/:id with body {status: sent}
PatchJob(i, sent) ==
  /\ IF ~isId(i)
     THEN /\ reply' = [NoReply EXCEPT !.op = "PATCH", !.id = i, !.sent = sent, !.code = 400]
          /\ UNCHANGED <<raw, last>>
     ELSE IF i \notin RawIds \/ raw[i] = "none"
     THEN /\ reply' = [NoReply EXCEPT !.op = "PATCH", !.id = i, !.sent = sent, !.code = 404]
          /\ UNCHANGED <<raw, last>>
     ELSE /\ raw' = [raw EXCEPT ![i] = PatchedRow(@, sent)]
          /\ reply' = [NoReply EXCEPT !.op = "PATCH", !.id = i, !.sent = sent,
                                      !.code = 200, !.updated = i]
          /\ last' = [last EXCEPT ![i] = IF jobStatus(sent) THEN sent ELSE @]
  /\ UNCHANGED <<req, hpc, resp, created, status, task, SchedVars, io, FsVars, tmpl>>

\* GET /job/:id
GetJob(i) ==
  /\ reply' =
       IF ~isId(i) THEN [NoReply EXCEPT !.op = "GET", !.id = i, !.code = 400]
       ELSE IF i \notin RawIds \/ raw[i] = "none"
       THEN [NoReply EXCEPT !.op = "GET", !.id = i, !.code = 404]
       ELSE [NoReply EXCEPT !.op = "GET", !.id = i, !.code = 200, !.status = raw[i]]
  /\ UNCHANGED <<raw, last, req, hpc, resp, created, status, task, SchedVars, io, FsVars, tmpl>>

\* a delete that removes nothing
KeptRows(rows, i) == rows

\* the table after prisma.renderRaw.delete({where: {id}})
DeletedRows(rows, i) == [rows EXCEPT ![i] = "none"]

\* DELETE /job/:id
DeleteJob(i) ==
  /\ IF ~isId(i)
     THEN /\ reply' = [NoReply EXCEPT !.op = "DELETE", !.id = i, !.code = 400]
          /\ UNCHANGED <<raw, last>>
     ELSE IF i \notin RawIds \/ raw[i] = "none"
     THEN /\ reply' = [NoReply EXCEPT !.op = "DELETE", !.id = i, !.code = 404]
          /\ UNCHANGED <<raw, last>>
     ELSE /\ raw' = DeletedRows(raw, i)
          /\ reply' = [NoReply EXCEPT !.op = "DELETE", !.id = i, !.code = 204]
          /\ last' = [last EXCEPT ![i] = "none"]
  /\ UNCHANGED <<req, hpc, resp, created, status, task, SchedVars, io, FsVars, tmpl>>

\* the rows the table holds when the server starts
ApiInit ==
  /\ created = NoCreated
  /\ raw \in [RawIds -> RawStatus \cup {"none"}]
  /\ reply = NoReply
  /\ last = NoRows
  /\ io = [j \in Jobs |-> NoIo]
  /\ files = {}
  /\ rmLog = NoRmLog
  /\ tmpl = "none"
  /\ now = 0
  /\ status = [j \in Jobs |-> "none"]
  /\ task = [j \in Jobs |-> FALSE]
  /\ inflight = {}
  /\ recs = {}
  /\ jobId = NoJob
  /\ tid = NoTimer
  /\ lastRefresh = 0
  /\ timers = {}
  /\ pc = "find"
  /\ next = NoJob
  /\ badJob = NoJob
  /\ overlap = FALSE
  /\ errs = 0
  /\ notif = [j \in Jobs |-> "none"]
  /\ req = NoBody
  /\ hpc = "idle"
  /\ resp = "none"
  /\ run = [j \in Jobs |-> NoRun]

ApiNext ==
  \/ \E i \in 0..MaxRaw, sent \in RawStatus : PatchJob(i, sent)
  \/ \E i \in 0..MaxRaw : GetJob(i)
  \/ \E i \in 0..MaxRaw : DeleteJob(i)

ApiSpec == ApiInit /\ [][ApiNext]_vars

\* the tick coroutines never overlap, so pc describes all of them
NoOverlap == ~overlap

\* ---- claims ----

Rendering(j) == run[j].phase \in {"main", "aborted", "rec", "sat"}
ProcAlive(j) == run[j].proc = "running" \/ run[j].tproc = "running"
RecsOf(j) == {r \in recs : r.job = j}
Quiet(j) == ~ \E w \in inflight : w.job = j
StartedAt(j) == run[j].mainTimer - 1000 * maxRunTime

\* C1: at most one job is rendered at a time. A renderer or transcoder process
\* is alive only for a job whose run is in flight, and a job's run is in flight
\* only while the run guard holds that job's id (so never two jobs at once).
C1_SingleRender ==
  \A j \in Jobs :
    /\ ProcAlive(j) => Rendering(j)
    /\ Rendering(j) => jobId = j

\* C1 witness: a job is being transcoded after another job's run has finished
C1_Witness ==
  \E j, k \in Jobs :
    /\ j # k
    /\ run[j].phase \in {"done", "failed"}
    /\ run[k].tproc = "running"
    /\ jobId = k

\* C2: a job's stored status moves only pending -> started -> satisfied or
\* pending -> started -> failed (a row appears as pending), and never leaves
\* satisfied or failed.
C2_StatusMoves ==
  [][\A j \in Jobs :
       status'[j] # status[j] =>
         <<status[j], status'[j]>> \in
           {<<"none", "pending">>, <<"pending", "started">>,
            <<"started", "satisfied">>, <<"started", "failed">>}]_vars

\* C3: a job whose render is in flight with the renderer still running, and
\* whose guard is older than the maximum render time (counted from the last
\* refresh and from the start of the render alike), is eventually marked
\* failed by the watchdog. The watchdog runs inside tick only, so in every such
\* state the job is failed, or being written failed, or a tick is still to
\* come: a reschedule timer is pending or a tick is waiting for the store.
C3_WatchdogStillComes ==
  \A j \in Jobs :
    (/\ jobId = j
     /\ run[j].proc = "running"
     /\ run[j].mainTimer # NoTimer
     /\ now - StartedAt(j) > 1000 * maxRenderTimeSeconds
     /\ now - lastRefresh > 1000 * maxRenderTimeSeconds)
    => \/ status[j] = "failed"
       \/ \E w \in inflight : w.job = j /\ w.st = "failed"
       \/ timers # {}
       \/ pc # "idle"

\* C4: a renderer that closed with exit code 0 and a stdout without the
\* completion token, or with another payload than "completed", never has its
\* job satisfied; once the job's writes are done its status is failed.
C4_BadTokenFails ==
  \A j \in Jobs :
    (run[j].proc = "closed" /\ run[j].rcode = 0 /\ run[j].check # "true")
    => /\ status[j] # "satisfied"
       /\ (run[j].phase \in {"failed", "done"} /\ Quiet(j)) => status[j] = "failed"

\* C5: once main's timeout has expired with the renderer not closed, the run
\* has been reported to its caller (the promise of task.main is settled).
C5_TimeoutReported ==
  \A j \in Jobs :
    (run[j].proc = "running" /\ run[j].mainTimer = NoTimer)
    => run[j].promise # "pending"

\* C6: once the timeout of a run has expired with its process still alive, the
\* process has been sent signal 9 (renderer and transcoder alike).
C6_TimeoutKills ==
  \A j \in Jobs :
    /\ (run[j].proc = "running" /\ run[j].mainTimer = NoTimer) => run[j].killed
    /\ (run[j].tproc = "running" /\ run[j].convTimer = NoTimer) => run[j].tkilled

\* C7: after a run whose renderer closed with 0 and payload "completed" and
\* whose transcoder closed with 0, exactly two Recordings exist for the job's
\* task, one aiff and one mp3, both labelled deterministic, and the job is
\* satisfied once its writes are done.
C7_TwoRecordings ==
  \A j \in Jobs :
    (/\ run[j].phase = "done"
     /\ run[j].rcode = 0
     /\ run[j].check = "true"
     /\ run[j].tcode = 0)
    => /\ RecsOf(j) = {HiResRecording(j), Mp3Recording(j)}
       /\ Quiet(j) => status[j] = "satisfied"

\* C8: after the renderer closed with a non-zero exit code the job is never
\* satisfied, has no Recording, and is failed once its writes are done.
C8_RendererFailure ==
  \A j \in Jobs :
    (run[j].proc = "closed" /\ run[j].rcode \notin {0, NullCode})
    => /\ status[j] # "satisfied"
       /\ RecsOf(j) = {}
       /\ Quiet(j) => status[j] = "failed"

\* C9: when a render is over, on whatever path, deletion of the temporary
\* input (.json) was attempted, and so was deletion of the high-resolution
\* (.aiff) file when the renderer had succeeded.
C9_CleanupOnEveryPath ==
  \A j \in Jobs :
    run[j].phase \in {"failed", "done", "aborted"}
    => /\ "json" \in run[j].rmTried
       /\ run[j].tproc # "none" => "aiff" \in run[j].rmTried

\* C10: after the transcoder closed with a non-zero exit code the job is never
\* satisfied, deletion of the high-resolution file was attempted, no Recording
\* exists for the job, and the job is failed once its writes are done.
C10_TranscoderFailure ==
  \A j \in Jobs :
    (run[j].tproc = "closed" /\ run[j].tcode # 0)
    => /\ status[j] # "satisfied"
       /\ "aiff" \in run[j].rmTried
       /\ RecsOf(j) = {}
       /\ Quiet(j) => status[j] = "failed"

\* C11: the step in which a run ends (the executor's outcome has come through
\* run's chain, as success or as failure) clears the run guard and calls tick
\* at once: tick is then asking the store for the next pending job, and no
\* reschedule timer was armed in between.
C11_ImmediateTick ==
  [][\A j \in Jobs :
       (run[j].phase \in {"main", "rec", "sat"} /\ run'[j].phase \in {"failed", "done"})
       => /\ jobId' = NoJob
          /\ pc' = "find"
          /\ timers' = timers]_vars

\* C11 witness: a run has just ended, another job is pending, and tick is
\* already asking for it with no timer armed
C11_Witness ==
  \E j, k \in Jobs :
    /\ j # k
    /\ run[j].phase \in {"failed", "done"}
    /\ status[k] = "pending"
    /\ jobId = NoJob
    /\ pc = "find"
    /\ timers = {}

\* C12: a run that has outlived the maximum render time ends by the watchdog:
\* the job is marked failed and the run guard is emptied by the watchdog's
\* handling. So whenever the guard still holds a job whose renderer has been
\* running for longer than the maximum (by the guard's age and by the render's
\* own start), the watchdog is at work on it (it is looking the job up, or its
\* failed write is in flight) or a tick that will run the watchdog is still to
\* come (a reschedule timer is pending or a tick is waiting for the store).
C12_WatchdogClearsGuard ==
  \A j \in Jobs :
    (/\ jobId = j
     /\ run[j].phase = "main"
     /\ run[j].proc = "running"
     /\ run[j].mainTimer # NoTimer
     /\ now - StartedAt(j) > 1000 * maxRenderTimeSeconds
     /\ now - lastRefresh > 1000 * maxRenderTimeSeconds)
    => \/ pc = "wd" /\ badJob = j
       \/ watchdogFailed(j) \in inflight
       \/ timers # {}
       \/ pc \in {"find", "task"}

\* C13: a store error in the find-next-pending query or in the RenderTask
\* lookup is caught. In the step that takes the error the tick ends with the
\* reschedule timer armed (spawnState.tid is that pending timer), the run guard
\* empty before and after, and no status write, Recording or run started; so
\* the next tick comes with the timer and the scheduler keeps polling.
C13_StoreErrorCaught ==
  [][(pc \in {"find", "task"} /\ errs' = errs + 1)
     => /\ jobId = NoJob
        /\ jobId' = NoJob
        /\ pc' = "idle"
        /\ tid' = now + interval
        /\ timers' = timers \cup {tid'}
        /\ UNCHANGED <<status, inflight, recs, run>>]_vars

\* C13 witness: after a store error a later tick has picked a job and its
\* render is running
C13_Witness ==
  \E j \in Jobs :
    /\ errs > 0
    /\ jobId = j
    /\ run[j].proc = "running"
    /\ now > 0

\* C14: a failed notification request does not revert the job. The step that
\* takes the failure comes after the job's run has ended with the run guard
\* released by the job, changes no job's stored status (a satisfied job stays
\* satisfied through it), sends no status write, and leaves the scheduler
\* (guard, timer, tick) as it was, so the scheduler goes on.
C14_NotifyFailureKeepsStatus ==
  [][\A j \in Jobs :
       (notif[j] = "sent" /\ notif'[j] = "failed")
       => /\ jobId # j
          /\ run[j].phase = "done"
          /\ UNCHANGED <<status, inflight, recs, jobId, tid, timers, pc, run>>]_vars

\* C14 witness: a job's notification has failed, the job is stored satisfied,
\* and the scheduler has gone on to render another job
C14_Witness ==
  \E j, k \in Jobs :
    /\ j # k
    /\ notif[j] = "failed"
    /\ status[j] = "satisfied"
    /\ jobId = k
    /\ run[k].phase = "main"

\* C15: the step in which the store answers tick's find query with no pending
\* job (no error) ends the tick with the reschedule timer armed, the run guard
\* empty before and after, and the Job, RenderTask and Recording tables, the
\* status writes in flight and the runs unchanged.
C15_IdleTick ==
  [][(pc = "find" /\ pc' # pc /\ errs' = errs /\ getNextJob = NoJob)
     => /\ pc' = "idle"
        /\ tid' = now + interval
        /\ timers' = timers \cup {tid'}
        /\ jobId = NoJob
        /\ jobId' = NoJob
        /\ UNCHANGED <<status, task, recs, inflight, run>>]_vars

\* C15 witness: after a finished run a tick found nothing pending and armed
\* the timer
C15_Witness ==
  /\ errs = 0
  /\ pc = "idle"
  /\ tid \in timers
  /\ jobId = NoJob
  /\ \A j \in Jobs : status[j] # "pending"
  /\ \E j \in Jobs : run[j].phase = "done"

\* C16: in the step in which tick takes a job from its find query, the job's
\* stored status is pending and no job that is pending at that moment was
\* created after it (newest pending first).
C16_NewestPendingFirst ==
  [][(pc = "find" /\ pc' = "task")
     => /\ next' \in Jobs
        /\ status[next'] = "pending"
        /\ \A k \in Jobs : status[k] = "pending" => k <= next']_vars

\* C16 witness: with two jobs pending the later one was picked and is being
\* rendered while the earlier one still waits
C16_Witness ==
  \E j, k \in Jobs :
    /\ j < k
    /\ status[j] = "pending"
    /\ run[j].phase = "none"
    /\ jobId = k
    /\ run[k].phase = "main"

C18_WatchdogFailureStands ==
  [][\A j \in Jobs :
       (/\ jobId = j
        /\ run[j].phase \in {"main", "rec", "sat"}
        /\ now - run[j].since > 1000 * maxRenderTimeSeconds
        /\ now - lastRefresh > 1000 * maxRenderTimeSeconds)
       => (status'[j] = "satisfied" => status[j] = "satisfied")]_vars

\* the spec's structural validation of a composition: conf.cps > 0,
\* conf.root > 0, every note-event a 3-tuple [duration > 0, frequency > 0,
\* amplitude in [0, 1]]
ValidNote(m) ==
  /\ Len(m) = 3
  /\ \A i \in 1..3 : m[i].t = "number"
  /\ m[1].v > 0
  /\ m[2].v > 0
  /\ m[3].v >= 0
  /\ m[3].v <= 1

ValidComposition(b) ==
  /\ posNum(b.conf.cps)
  /\ posNum(b.conf.root)
  /\ \A i \in 1..Len(b.motes) : \A k \in 1..Len(b.motes[i]) : ValidNote(b.motes[i][k])

\* C19: a render request creates a Job only if its composition passes the
\* structural validation: in every step of the POST handler that adds a Job
\* row, the body being handled has conf.cps > 0, conf.root > 0 and only
\* note-events that are 3-tuples with duration > 0, frequency > 0 and
\* amplitude within [0, 1].
C19_OnlyValidCreatesJob ==
  [][\A j \in Jobs :
       (status[j] = "none" /\ status'[j] = "pending") => ValidComposition(req)]_vars

\* C20: for an existing row, a PATCH /job/:id whose body status is pending,
\* failed or satisfied answers 200 with updated.id equal to the id and stores
\* that status; and a GET /job/:id of a row answers 200 with the status that
\* the last such PATCH of the row sent (the last patch wins).
C20_PatchThenGet ==
  [][\A i \in RawIds :
       /\ (/\ reply' # reply
           /\ reply'.op = "PATCH"
           /\ reply'.id = i
           /\ raw[i] # "none"
           /\ reply'.sent \in {"pending", "failed", "satisfied"})
          => /\ reply'.code = 200
             /\ reply'.updated = i
             /\ raw'[i] = reply'.sent
       /\ (reply'.op = "GET" /\ reply'.id = i /\ last'[i] # "none")
          => /\ reply'.code = 200
             /\ reply'.status = last'[i]]_vars

\* C20 witness: the GET of a row whose last PATCH sent satisfied answered 200
\* with status satisfied
C20_Witness ==
  \E i \in RawIds :
    /\ reply.op = "GET"
    /\ reply.id = i
    /\ reply.code = 200
    /\ reply.status = "satisfied"
    /\ last[i] = "satisfied"
    /\ raw[i] = "satisfied"

\* C21: the step in which the POST handler answers 201 sends a body
\* {created: {resource: "job-wendy-render-raw", id}} whose id is the id of the
\* Job the request created and names a row that GET, PATCH and DELETE /job/:id
\* can find.
C21_CreatedResponse ==
  [][(resp' = "201" /\ hpc = "task" /\ hpc' = "idle")
     => /\ created'.resource = "job-wendy-render-raw"
        /\ created'.id \in Jobs
        /\ status[created'.id] = "pending"
        /\ ~task[created'.id]
        /\ created'.id \in RawIds
        /\ raw'[created'.id] # "none"]_vars

\* C22: a DELETE /job/:id of an existing row answers 204 and removes that row
\* and no other; and a GET /job/:id of a row that is not there (so any GET
\* after the delete) answers 404.
C22_DeleteThenGet ==
  [][\A i \in RawIds :
       /\ (/\ reply' # reply
           /\ reply'.op = "DELETE"
           /\ reply'.id = i
           /\ raw[i] # "none")
          => /\ reply'.code = 204
             /\ raw'[i] = "none"
             /\ \A k \in RawIds \ {i} : raw'[k] = raw[k]
       /\ (reply'.op = "GET" /\ reply'.id = i /\ raw'[i] = "none")
          => reply'.code = 404]_vars

\* C22 witness: a DELETE has answered 204, its row is gone and another row is
\* still there
C22_Witness ==
  \E i, k \in RawIds :
    /\ reply.op = "DELETE"
    /\ reply.id = i
    /\ reply.code = 204
    /\ raw[i] = "none"
    /\ raw[k] # "none"

\* C23: the step in which the RenderTask lookup for the picked job errors
\* leaves that job started in the store (stored as started, or with its
\* started write on the way), the run guard empty, no run begun and the
\* reschedule timer armed.
C23_LookupErrorLeavesStarted ==
  [][(pc = "task" /\ errs' = errs + 1)
     => /\ \/ status'[next] = "started"
           \/ markStarted(next) \in inflight'
        /\ jobId' = NoJob
        /\ run' = run
        /\ tid' \in timers']_vars

C25_GuardStampedAtStart ==
  [][(jobId' # NoJob /\ jobId' # jobId) => lastRefresh' = now]_vars

\* C26: a renderer close with exit code 0 or without an exit code makes the
\* invocation succeed (never a rejection, and a resolved promise once the
\* transcoder has closed); a close with any other code rejects it, with the
\* text after the error marker of each stderr line that holds the marker,
\* joined by commas, as the reason.
C26_CloseOutcome ==
  \A j \in Jobs :
    run[j].proc = "closed" =>
      IF run[j].rcode \in {0, NullCode}
      THEN /\ run[j].promise # "rejected"
           /\ run[j].tproc = "closed" => run[j].promise = "resolved"
      ELSE /\ run[j].promise = "rejected"
           /\ io[j].reason = parseErrorOutput(io[j].err)

\* C27: a stderr line, with or without the error marker, changes nothing of
\* the invocation that received it (the renderer keeps running, the promise
\* keeps its state and reason), and two invocations whose renderer closed with
\* the same exit code after the same stdout content, with the transcoder in
\* the same state, report the same outcome whatever their stderr lines were.
C27_StderrNoEffect ==
  [][/\ \A j \in Jobs :
          io'[j].err # io[j].err =>
            run'[j] = run[j] /\ io'[j].reason = io[j].reason
     /\ \A j, k \in Jobs :
          ( /\ run'[j].proc = "closed" /\ run'[k].proc = "closed"
            /\ run'[j].rcode = run'[k].rcode
            /\ io'[j].out = io'[k].out
            /\ run'[j].tproc = run'[k].tproc
            /\ run'[j].tcode = run'[k].tcode )
          => /\ run'[j].promise = run'[k].promise
             /\ io'[j].reason = io'[k].reason]_vars

\* C27 witness: two invocations ended with exit code 0 and the same stdout;
\* one of them logged an error line from stderr, the other got no stderr at
\* all, and both resolved
C27_Witness ==
  \E j, k \in Jobs :
    /\ run[j].proc = "closed" /\ run[k].proc = "closed"
    /\ run[j].rcode = 0 /\ run[k].rcode = 0
    /\ io[j].out = io[k].out
    /\ io[j].logged > 0 /\ io[k].err = <<>>
    /\ run[j].promise = "resolved" /\ run[k].promise = "resolved"

\* C28: the transcoder of a job is invoked only after the renderer's success
\* is confirmed: the renderer closed with a successful exit (code 0, or no
\* code) and the completion token read from its stdout equals "completed". It
\* is never invoked after a failed renderer or with a missing or different
\* token.
C28_TranscodeAfterConfirm ==
  \A j \in Jobs :
    run[j].tproc # "none" =>
      /\ run[j].proc = "closed"
      /\ run[j].rcode \in {0, NullCode}
      /\ run[j].check = "true"

\* C29: the notification of a job is sent in a step that leaves the job stored
\* satisfied, and never for a job that resolved failed: no job with a
\* notification is stored failed or has a write of failed on its way to the
\* store.
C29_NotifyOnlySatisfied ==
  [][\A j \in Jobs :
       /\ (notif[j] = "none" /\ notif'[j] = "sent") => status'[j] = "satisfied"
       /\ notif'[j] # "none" =>
            status'[j] # "failed" /\ markFailed(j) \notin inflight']_vars

C31_CleanupByExtension ==
  [][rmLog'.fn \in {"cleanupTmpTemplate", "cleanupHiResFile"} =>
       LET path == rmLog'.path
           want == IF rmLog'.fn = "cleanupTmpTemplate" THEN "json" ELSE "aiff"
       IN /\ files' \in {files, files \ {path}}
          /\ files' # files => path.ext = want
          /\ path.ext # want =>
               files' = files /\ rmLog'.result = "refused" /\ ~rmLog'.raised]_vars

\* C31 witness: cleanupHiResFile was called on an existing .json file, refused
\* it, and the file is still there
C31_Witness ==
  /\ rmLog.fn = "cleanupHiResFile"
  /\ rmLog.path.ext = "json"
  /\ rmLog.result = "refused"
  /\ rmLog.path \in files

\* C32: a cleanup call never raises to its caller. A call on a path that is
\* not on disk, or whose removal fails, only logs and leaves the disk as it
\* was; the close handler's finally block with its two cleanups is always
\* followed by res(mp3Path); and a call repeated on the same path right after
\* a call that removed or refused it changes nothing.
C32_CleanupNeverRaises ==
  [][rmLog'.fn # "none" =>
       /\ ~rmLog'.raised
       /\ rmLog'.fn = "finally" => rmLog'.resolved
       /\ rmLog'.fn # "finally" =>
            /\ (rmLog'.path \notin files \/ rmLog'.result = "rm-error")
                 => files' = files
            /\ ( /\ rmLog.fn = rmLog'.fn
                 /\ rmLog.path = rmLog'.path
                 /\ rmLog.result \in {"removed", "refused"} )
                 => files' = files]_vars

\* C32 witness: cleanupTmpTemplate was called on a .json path that is not on
\* disk; the removal failed and was logged
C32_Witness ==
  /\ rmLog.fn = "cleanupTmpTemplate"
  /\ rmLog.path.ext = "json"
  /\ rmLog.path \notin files
  /\ rmLog.result = "rm-error"
  /\ ~rmLog.raised

\* C33: once the renderer of a run has closed (and the transcoder, if the
\* close handler started it, has closed too), the outcome of task.main is
\* settled, resolved or rejected, so run() returns and the completion handlers
\* of tick run: the run is not left in flight.
C33_CloseSettles ==
  \A j \in Jobs :
    (run[j].proc = "closed" /\ run[j].tproc # "running") =>
      /\ run[j].promise \in {"resolved", "rejected"}
      /\ run[j].completed
      /\ run[j].phase # "aborted"

\* C34: whenever tick begins and goes on to a store query, the run guard is
\* empty and no reschedule timer is pending; no tick begins while another one
\* waits; and while the guard holds a job no tick is waiting and no timer is
\* pending.
C34_TickEntryClean ==
  [][/\ (pc = "idle" /\ pc' # "idle") => (jobId' = NoJob /\ timers' = {})
     /\ jobId' # NoJob => (pc' = "idle" /\ timers' = {} /\ tid' = NoTimer)
     /\ ~overlap']_vars

\* C34 witness: a run has ended and the tick called from its finally is
\* waiting for the find query, with the guard empty and no timer pending
C34_Witness ==
  \E j \in Jobs :
    /\ run[j].phase \in {"done", "failed"}
    /\ pc = "find"
    /\ jobId = NoJob
    /\ timers = {}

\* C35: a job is handed to run() at most once: a step that starts a run for a
\* job finds no earlier run of that job.
C35_RunAtMostOnce ==
  [][\A j \in Jobs :
       (run'[j].phase = "main" /\ run'[j] # run[j] /\ run[j].phase # "main")
         => run[j].phase = "none"]_vars

\* some render invocation never settled: the close handler of its renderer
\* threw, and the promise of main stays pending
Unsettled == \E k \in Jobs : run[k].phase = "aborted"

C37_SatisfiedOnlyAfterSuccess ==
  [][\A j \in Jobs :
       /\ (status'[j] = "satisfied" /\ status[j] # "satisfied")
            => Mp3Recording(j) \in recs
       /\ status'[j] = "satisfied" =>
            /\ run'[j].proc = "closed" /\ run'[j].rcode \in {0, NullCode}
            /\ run'[j].tproc = "closed" /\ run'[j].tcode = 0
            /\ Mp3Recording(j) \in recs']_vars

\* C37 witness: a job is stored satisfied after its renderer and its
\* transcoder both closed with exit code 0 and its mp3 Recording was created
C37_Witness ==
  \E j \in Jobs :
    /\ status[j] = "satisfied"
    /\ run[j].phase = "done"
    /\ run[j].rcode = 0 /\ run[j].tcode = 0
    /\ Mp3Recording(j) \in recs

\* C38: a job stored failed has no Recording, also when the failure is a
\* store error on the satisfied write after a successful render.
C38_FailedHasNoRecording ==
  \A j \in Jobs : status[j] = "failed" => RecsOf(j) = {}

\* C39: a Recording is created only for an artifact that exists at that
\* moment: none for a file of the run that cleanup has already removed, and an
\* mp3 Recording only after the transcoder that writes the mp3 closed with exit
\* code 0.
C39_RecordingArtifactExists ==
  [][/\ \A rec \in recs' \ recs : rec.format \notin run'[rec.job].rmTried
     /\ \A j \in Jobs :
          (run[j].phase = "rec" /\ run'[j].phase = "sat") =>
            /\ Mp3Recording(j) \in recs'
            /\ "mp3" \notin run'[j].rmTried
            /\ run'[j].tproc = "closed" /\ run'[j].tcode = 0]_vars

\* C39 witness: the mp3 Recording of a run has just been created, after the
\* close handler's cleanup removed the run's .aiff file
C39_Witness ==
  \E j \in Jobs :
    /\ run[j].phase = "sat"
    /\ Mp3Recording(j) \in recs
    /\ "aiff" \in run[j].rmTried

\* C40: the POST handler creates a Job row only for a request whose template
\* file was written; when makeTmpTemplate fails (it returns an error or it
\* throws), the request leaves no Job and no RenderTask behind and is answered
\* with one 500.
C40_NoJobWithoutTemplate ==
  [][/\ \A j \in Jobs :
          (status[j] = "none" /\ status'[j] = "pending") => tmpl' = "path"
     /\ \A j \in Jobs : (~task[j] /\ task'[j]) => tmpl' = "path"
     /\ (hpc = "check" /\ tmpl' \in {"error", "throw"}) =>
          (status' = status /\ hpc' = "idle" /\ resp' = "500")]_vars

====
